---- MODULE Spec2Model ----
(***************************************************************************)
(* study_timer: the configuration store (src/src/config.rs), the daemon    *)
(* lifecycle and its alert matching (src/src/scheduler.rs).                *)
(*                                                                         *)
(* Text is modelled as a sequence of one-character strings, so that        *)
(* counting separators, formatting "%H:%M" and parsing "%H:%M" are         *)
(* computed the way the code computes them.  Hours (f32 in the source) are *)
(* drawn from small integers: the code only compares them with 0.0 and     *)
(* stores them.                                                            *)
(***************************************************************************)
EXTENDS Integers, Sequences, FiniteSets, TLC

VARIABLES
    subjects,    \* Config.subjects : name -> [target_hours, completed_hours]
    schedules,   \* Config.schedules: name -> sequence of StudySession
    file,        \* what the config file holds: the JSON text of a store, or Truncated
    last,        \* the last foreground call: its arguments and its results
    pre,         \* the store as it was when that call began
    running,     \* Scheduler.running (the shared AtomicBool)
    loops,       \* the tasks spawned by run_daemon, in spawn order
    notified,    \* the notify calls made so far, by every loop
    failed,      \* those of them that returned an error
    now,         \* the local clock: [weekday, minute of the day]
    ticks,       \* minutes the clock has advanced since construction
    current_session,  \* Schedule.current_session (src/src/schedule.rs)
    session_call,     \* the last call on the Schedule and what it returned
    clock             \* Local::now() as the Schedule reads it, in seconds

tracker_vars == <<current_session, session_call, clock>>

vars == <<subjects, schedules, file, last, pre, running, loops, notified, failed, now,
          ticks, current_session, session_call, clock>>

-----------------------------------------------------------------------------
(* Bounds of the model *)

MaxSlots == 2      \* slots the store holds in all
MaxLoops == 2      \* tasks run_daemon has spawned
MaxTicks == 3      \* minutes the clock advances in the lifecycle model
MaxHalfMinutes == 5  \* half minutes the clock advances in the session tracker model

-----------------------------------------------------------------------------
(* Text *)

Digits == <<"0", "1", "2", "3", "4", "5", "6", "7", "8", "9">>

IsDigit(c) == \E i \in 1..10 : Digits[i] = c

DigitValue(c) == (CHOOSE i \in 1..10 : Digits[i] = c) - 1

T_0900 == <<"0", "9", ":", "0", "0">>
T_9_00 == <<"9", ":", "0", "0">>
T_0901 == <<"0", "9", ":", "0", "1">>
T_0002 == <<"0", "0", ":", "0", "2">>
T_2500 == <<"2", "5", ":", "0", "0">>
T_1000 == <<"1", "0", "0", "0">>
T_100000 == <<"1", "0", ":", "0", "0", ":", "0", "0">>

\* start_time.matches(|c| c == ':').count()
RECURSIVE CountColons(_)
CountColons(s) ==
    IF s = <<>> THEN 0
    ELSE (IF Head(s) = ":" THEN 1 ELSE 0) + CountColons(Tail(s))

UsizeBits == 64

\* bit i of a usize holding n; the counts of the model stay below 2^30
Bit(n, i) == IF i < 30 THEN (n \div (2 ^ i)) % 2 ELSE 0

\* !n == m on usize: `!` is the bitwise complement, applied before `==`
NotUsizeEquals(n, m) == \A i \in 0..(UsizeBits - 1) : 1 - Bit(n, i) = Bit(m, i)

-----------------------------------------------------------------------------
(* Config (src/src/config.rs) *)

valid_days ==
    {"Monday", "Tuesday", "Wednesday", "Thursday", "Friday", "Saturday", "Sunday"}

Subject(target_hours, completed_hours) ==
    [target_hours |-> target_hours, completed_hours |-> completed_hours]

StudySession(day, start_time, duration) ==
    [day |-> day, start_time |-> start_time, duration |-> duration]

\* HashMap::insert
Insert(map, key, value) ==
    [k \in DOMAIN map \cup {key} |-> IF k = key THEN value ELSE map[k]]

\* the condition of `if !start_time.matches(|c| c == ':').count() == 1`
TimeFormatRejected(start_time) == NotUsizeEquals(CountColons(start_time), 1)

\* Config::add_subject rejecting only negative targets (`<` for `<=`)
Config_add_subject_accepts_zero(subj, name, target_hours) ==
    IF target_hours < 0
    THEN [result |-> "Err_target", subjects |-> subj]
    ELSE [result |-> "Ok", subjects |-> Insert(subj, name, Subject(target_hours, 0))]

\* Config::add_subject keeping the entry of a name that exists (entry().or_insert)
Config_add_subject_keeps_entry(subj, name, target_hours) ==
    IF target_hours <= 0
    THEN [result |-> "Err_target", subjects |-> subj]
    ELSE [result |-> "Ok",
          subjects |-> IF name \in DOMAIN subj THEN subj
                       ELSE Insert(subj, name, Subject(target_hours, 0))]

\* Config::add_subject: the result and the subjects table it leaves
Config_add_subject(subj, name, target_hours) ==
    IF target_hours <= 0
    THEN [result |-> "Err_target", subjects |-> subj]
    ELSE [result |-> "Ok", subjects |-> Insert(subj, name, Subject(target_hours, 0))]

\* Config::add_schedule without the contains_key check on the subject
Config_add_schedule_any_subject(subj, sched, subject, day, start_time, duration) ==
    IF day \notin valid_days
    THEN [result |-> "Err_incorrect_day", schedules |-> sched]
    ELSE IF TimeFormatRejected(start_time)
    THEN [result |-> "Err_time_format", schedules |-> sched]
    ELSE [result |-> "Ok",
          schedules |->
              Insert(sched, subject,
                     Append(IF subject \in DOMAIN sched THEN sched[subject] ELSE <<>>,
                            StudySession(day, start_time, duration)))]

\* Config::add_schedule putting the new slot in place of the subject's list
Config_add_schedule_replaces(subj, sched, subject, day, start_time, duration) ==
    IF subject \notin DOMAIN subj
    THEN [result |-> "Err_subject_not_found", schedules |-> sched]
    ELSE IF day \notin valid_days
    THEN [result |-> "Err_incorrect_day", schedules |-> sched]
    ELSE IF TimeFormatRejected(start_time)
    THEN [result |-> "Err_time_format", schedules |-> sched]
    ELSE [result |-> "Ok",
          schedules |-> Insert(sched, subject, <<StudySession(day, start_time, duration)>>)]

\* Config::add_schedule: the result and the schedules table it leaves
Config_add_schedule(subj, sched, subject, day, start_time, duration) ==
    IF subject \notin DOMAIN subj
    THEN [result |-> "Err_subject_not_found", schedules |-> sched]
    ELSE IF day \notin valid_days
    THEN [result |-> "Err_incorrect_day", schedules |-> sched]
    ELSE IF TimeFormatRejected(start_time)
    THEN [result |-> "Err_time_format", schedules |-> sched]
    ELSE [result |-> "Ok",
          schedules |->
              Insert(sched, subject,
                     Append(IF subject \in DOMAIN sched THEN sched[subject] ELSE <<>>,
                            StudySession(day, start_time, duration)))]

\* number of slots the schedules table holds
RECURSIVE SlotCount(_)
SlotCount(sched) ==
    IF DOMAIN sched = {} THEN 0
    ELSE LET k == CHOOSE x \in DOMAIN sched : TRUE
         IN Len(sched[k]) + SlotCount([x \in DOMAIN sched \ {k} |-> sched[x]])

EmptyMap == [x \in {} |-> 0]

-----------------------------------------------------------------------------
(* The clock and the alert conditions of run_daemon (src/src/scheduler.rs) *)

MinutesPerDay == 1440
MinutesPerHour == 60
SoonMinutes == 5

\* now.weekday() mapped to the day name
DayName(weekday) ==
    <<"Monday", "Tuesday", "Wednesday", "Thursday", "Friday", "Saturday", "Sunday">>[weekday + 1]

\* a number printed on two digits, zero padded
Format2(n) == <<Digits[(n \div 10) + 1], Digits[(n % 10) + 1]>>

\* now.format("%H:%M") for a minute of the day
FormatHM(minute) ==
    Format2(minute \div MinutesPerHour) \o <<":">> \o Format2(minute % MinutesPerHour)

\* how many leading digits a numeric field consumes: as many as there are, at most two
LeadingDigits(s) ==
    IF Len(s) >= 1 /\ IsDigit(s[1])
    THEN (IF Len(s) >= 2 /\ IsDigit(s[2]) THEN 2 ELSE 1)
    ELSE 0

\* the value of a field of one or two digits
FieldValue(s, n) ==
    IF n = 2 THEN DigitValue(s[1]) * 10 + DigitValue(s[2]) ELSE DigitValue(s[1])

\* NaiveTime::parse_from_str(s, "%H:%M"): [ok, minute of the day]
ParseHM(s) ==
    LET hn == LeadingDigits(s)
        r1 == SubSeq(s, hn + 1, Len(s))
        mn == IF r1 # <<>> THEN LeadingDigits(Tail(r1)) ELSE 0
        r2 == IF r1 # <<>> THEN SubSeq(Tail(r1), mn + 1, Len(r1) - 1) ELSE <<>>
        bad == [ok |-> FALSE, minute |-> 0]
    IN IF hn = 0 \/ r1 = <<>> \/ Head(r1) # ":" \/ mn = 0 \/ r2 # <<>>
       THEN bad
       ELSE LET h == FieldValue(s, hn)
                m == FieldValue(Tail(r1), mn)
            IN IF h >= 24 \/ m >= MinutesPerHour
               THEN bad
               ELSE [ok |-> TRUE, minute |-> h * MinutesPerHour + m]

\* Rust's % on i64: the remainder takes the sign of the dividend
Rem(a, b) == IF a >= 0 THEN a % b ELSE 0 - ((0 - a) % b)

\* (session_time.signed_duration_since(now_time).num_minutes() + 60) % 60
diff_minutes(session_minute, now_minute) ==
    Rem((session_minute - now_minute) + MinutesPerHour, MinutesPerHour)

\* the "Time to study" condition without the comparison of the day
StartingNow_any_day(session, t) == session.start_time = FormatHM(t.minute)

\* the condition of the "Time to study" notification
StartingNow(session, t) ==
    session.day = DayName(t.weekday) /\ session.start_time = FormatHM(t.minute)

\* the "starts in 5 minutes" condition taken as "at most 5 minutes ahead"
StartingSoon_within(session, t) ==
    /\ session.day = DayName(t.weekday)
    /\ ParseHM(session.start_time).ok
    /\ diff_minutes(ParseHM(session.start_time).minute, t.minute) <= SoonMinutes

\* the condition of the "starts in 5 minutes" notification
StartingSoon(session, t) ==
    /\ session.day = DayName(t.weekday)
    /\ ParseHM(session.start_time).ok
    /\ diff_minutes(ParseHM(session.start_time).minute, t.minute) = SoonMinutes

\* the notify calls of one pass over the snapshot at time t, made by loop i
Alerts(i, sched, t) ==
    { [loop |-> i, weekday |-> t.weekday, minute |-> t.minute,
       subject |-> n, slot |-> k, kind |-> kind] :
        <<n, k, kind>> \in
            { x \in UNION { {n} \X (1..Len(sched[n])) \X {"now", "soon"} : n \in DOMAIN sched } :
                \/ x[3] = "now" /\ StartingNow(sched[x[1]][x[2]], t)
                \/ x[3] = "soon" /\ StartingSoon(sched[x[1]][x[2]], t) } }

-----------------------------------------------------------------------------
(* Foreground calls on the Scheduler (src/src/scheduler.rs) *)

NoArg == "-"

\* a call, what the Config method returned, how the save that followed it ended
\* (NotCalled when the method returned before it), and what the caller got
NotCalled == "NotCalled"

Call(op, subject, day, start_time, duration, target_hours, config_result, saved, result) ==
    [op |-> op, subject |-> subject, day |-> day, start_time |-> start_time,
     duration |-> duration, target_hours |-> target_hours,
     config_result |-> config_result, saved |-> saved, result |-> result]

Store(subj, sched) == [subjects |-> subj, schedules |-> sched]

\* a file whose write stopped part way: no complete JSON document
Truncated == [complete |-> FALSE, subjects |-> EmptyMap, schedules |-> EmptyMap]

\* f32::INFINITY, which `target_hours <= 0.0` lets through like any positive value;
\* it stands above every finite number of hours of the model
F32_INFINITY == 1000000

\* serde_json on an f32: a number, or null when the value is not finite
JsonF32(x) ==
    IF x = F32_INFINITY THEN [kind |-> "null"] ELSE [kind |-> "number", value |-> x]

\* serde_json::to_string_pretty on the Config: its two tables (config_path, which
\* load overwrites, left out)
ToJson(store) ==
    [complete |-> TRUE,
     subjects |->
        [n \in DOMAIN store.subjects |->
            [target_hours |-> JsonF32(store.subjects[n].target_hours),
             completed_hours |-> JsonF32(store.subjects[n].completed_hours)]],
     schedules |->
        [n \in DOMAIN store.schedules |->
            [k \in 1..Len(store.schedules[n]) |->
                [day |-> [kind |-> "string", text |-> store.schedules[n][k].day],
                 start_time |-> [kind |-> "string", text |-> store.schedules[n][k].start_time],
                 duration |-> [kind |-> "number", value |-> store.schedules[n][k].duration]]]]]

\* serde_json::from_str into Config: an error on a truncated file and on a null
\* where an f32 is expected
FromJson(text) ==
    IF ~text.complete
    THEN [ok |-> FALSE]
    ELSE IF \E n \in DOMAIN text.subjects :
                \/ text.subjects[n].target_hours.kind # "number"
                \/ text.subjects[n].completed_hours.kind # "number"
    THEN [ok |-> FALSE]
    ELSE [ok |-> TRUE,
          store |->
            [subjects |->
                [n \in DOMAIN text.subjects |->
                    Subject(text.subjects[n].target_hours.value,
                            text.subjects[n].completed_hours.value)],
             schedules |->
                [n \in DOMAIN text.schedules |->
                    [k \in 1..Len(text.schedules[n]) |->
                        StudySession(text.schedules[n][k].day.text,
                                     text.schedules[n][k].start_time.text,
                                     text.schedules[n][k].duration.value)]]]]

\* Config::save: create_dir_all or File::create may fail and leave the file as it
\* was; write_all may fail after File::create has truncated the file
SaveOutcomes == {"Ok", "Err_create", "Err_write"}

save(subj, sched, outcome) ==
    IF outcome = "Ok" THEN ToJson(Store(subj, sched))
    ELSE IF outcome = "Err_write" THEN Truncated
    ELSE file

\* the save a Scheduler method makes: none when the Config method failed (`?`)
Saved(config_result, outcome) == IF config_result = "Ok" THEN outcome ELSE NotCalled

\* a Scheduler method that reports success although its save failed
Returned_ignores_save(config_result, outcome) == config_result

\* what a Scheduler method returns: the Config error, else the save error
Returned(config_result, outcome) ==
    IF config_result # "Ok" THEN config_result
    ELSE IF outcome # "Ok" THEN "Err_io"
    ELSE "Ok"

\* Scheduler::add_subject
add_subject(name, target_hours, outcome) ==
    LET r == Config_add_subject(subjects, name, target_hours)
    IN /\ subjects' = r.subjects
       /\ file' = IF r.result = "Ok" THEN save(r.subjects, schedules, outcome) ELSE file
       /\ last' = Call("add_subject", name, NoArg, NoArg, NoArg, target_hours,
                       r.result, Saved(r.result, outcome), Returned(r.result, outcome))
       /\ pre' = Store(subjects, schedules)
       /\ UNCHANGED <<schedules, running, loops, notified, failed, now, ticks>>
       /\ UNCHANGED tracker_vars

\* Scheduler::add_schedule
add_schedule(subject, day, start_time, duration, outcome) ==
    LET r == Config_add_schedule(subjects, schedules, subject, day, start_time, duration)
    IN /\ r.result = "Ok" => SlotCount(schedules) < MaxSlots
       /\ schedules' = r.schedules
       /\ file' = IF r.result = "Ok" THEN save(subjects, r.schedules, outcome) ELSE file
       /\ last' = Call("add_schedule", subject, day, start_time, duration, NoArg,
                       r.result, Saved(r.result, outcome), Returned(r.result, outcome))
       /\ pre' = Store(subjects, schedules)
       /\ UNCHANGED <<subjects, running, loops, notified, failed, now, ticks>>
       /\ UNCHANGED tracker_vars

\* Config::load, as Scheduler::new calls it: the tables of the file replace those in
\* memory; when it fails no Config is made, and the tables stay as they were
load ==
    LET r == FromJson(file)
    IN /\ subjects' = IF r.ok THEN r.store.subjects ELSE subjects
       /\ schedules' = IF r.ok THEN r.store.schedules ELSE schedules
       /\ last' = Call("load", NoArg, NoArg, NoArg, NoArg, NoArg,
                       IF r.ok THEN "Ok" ELSE "Err_parse", NotCalled,
                       IF r.ok THEN "Ok" ELSE "Err_parse")
       /\ pre' = Store(subjects, schedules)
       /\ UNCHANGED <<file, running, loops, notified, failed, now, ticks>>
       /\ UNCHANGED tracker_vars

\* a task spawned by run_daemon: where it is, the schedules it cloned, whether
\* stop_daemon has been called since it was spawned, and whether it was called
\* before the task first evaluated the flag
Task(sched) == [pc |-> "spawned", schedules |-> sched, stop_called |-> FALSE,
                passed_stop |-> FALSE, stop_before_first |-> FALSE]

\* a task that has neither left its loop nor been dropped with the runtime
Live(task) == task.pc \notin {"stopped", "cancelled"}

\* Scheduler::run_daemon
run_daemon ==
    /\ Len(loops) < MaxLoops
    /\ running' = TRUE
    /\ loops' = Append(loops, Task(schedules))
    /\ last' = Call("run_daemon", NoArg, NoArg, NoArg, NoArg, NoArg, "Ok", NotCalled, "Ok")
    /\ pre' = Store(subjects, schedules)
    /\ UNCHANGED <<subjects, schedules, file, notified, failed, now, ticks>>
    /\ UNCHANGED tracker_vars

\* Scheduler::stop_daemon
stop_daemon ==
    /\ running' = FALSE
    /\ loops' = [i \in DOMAIN loops |->
                    IF Live(loops[i])
                    THEN [loops[i] EXCEPT !.stop_called = TRUE,
                                          !.stop_before_first = @ \/ loops[i].pc = "spawned"]
                    ELSE loops[i]]
    /\ last' = Call("stop_daemon", NoArg, NoArg, NoArg, NoArg, NoArg, "Ok", NotCalled, "Ok")
    /\ pre' = Store(subjects, schedules)
    /\ UNCHANGED <<subjects, schedules, file, notified, failed, now, ticks>>
    /\ UNCHANGED tracker_vars

\* the schedules task i iterates over, reading the live table instead of its clone
Snapshot_live(i) == schedules

\* the schedules task i iterates over: the clone moved into it when it was spawned
Snapshot(i) == loops[i].schedules

\* the notify calls of a pass that stops at a call returning an error
Notify_until_error(due, errs) == IF errs = {} THEN due ELSE errs

\* the notify calls a pass makes when those in errs return an error: the Result of
\* notifier.notify(..) is dropped, so every due alert is passed to it
Notify(due, errs) == due

\* one evaluation of `while running.load(..)` by task i and, when it is true, the
\* body of the loop up to its sleep; errs are the notify calls that return Err
loop_iteration(i, errs) ==
    /\ loops[i].pc \in {"spawned", "awake"}
    /\ IF running
       THEN /\ errs \subseteq Alerts(i, Snapshot(i), now)
            /\ notified' = notified \cup Notify(Alerts(i, Snapshot(i), now), errs)
            /\ failed' = failed \cup errs
            /\ loops' = [loops EXCEPT ![i].pc = "sleeping",
                                      ![i].passed_stop = @ \/ loops[i].stop_called]
       ELSE /\ errs = {}
            /\ loops' = [loops EXCEPT ![i].pc = "stopped"]
            /\ UNCHANGED <<notified, failed>>
    /\ UNCHANGED <<subjects, schedules, file, last, pre, running, now, ticks>>
    /\ UNCHANGED tracker_vars

\* the clock after one more minute
NextMinute(t) ==
    IF t.minute + 1 < MinutesPerDay
    THEN [t EXCEPT !.minute = t.minute + 1]
    ELSE [weekday |-> (t.weekday + 1) % 7, minute |-> 0]

\* a minute passes: time::sleep(Duration::from_secs(60)) ends in every sleeping
\* task; the tasks tick once per minute, so none is still awake from the last one
minute_passes ==
    /\ \A i \in DOMAIN loops : loops[i].pc # "awake"
    /\ now' = NextMinute(now)
    /\ ticks' = ticks + 1
    /\ loops' = [i \in DOMAIN loops |->
                    IF loops[i].pc = "sleeping" THEN [loops[i] EXCEPT !.pc = "awake"]
                    ELSE loops[i]]
    /\ UNCHANGED <<subjects, schedules, file, last, pre, running, notified, failed>>
    /\ UNCHANGED tracker_vars

\* main returns after its one command: the runtime that #[tokio::main] built is
\* dropped and the process exits, so every task still alive is dropped where it is;
\* the command's error, if any, is what main returns
main_returns ==
    /\ last.op \notin {"new", "main"}
    /\ loops' = [i \in DOMAIN loops |->
                    IF Live(loops[i]) THEN [loops[i] EXCEPT !.pc = "cancelled"]
                    ELSE loops[i]]
    /\ last' = Call("main", NoArg, NoArg, NoArg, NoArg, NoArg, last.result, NotCalled,
                    last.result)
    /\ pre' = Store(subjects, schedules)
    /\ UNCHANGED <<subjects, schedules, file, running, notified, failed, now, ticks>>
    /\ UNCHANGED tracker_vars

-----------------------------------------------------------------------------
(* The session tracker (src/src/schedule.rs) *)

None == [some |-> FALSE]
Some(v) == [some |-> TRUE, value |-> v]

\* a call on the Schedule: the arguments of the latest start_session, the
\* Local::now() the call read, what it returned, the session held when it began,
\* and whether end_session had been called with no start_session since
SessionCall(op, subject, duration_minutes, at, returned, before, ended_earlier) ==
    [op |-> op, subject |-> subject, duration_minutes |-> duration_minutes, at |-> at,
     returned |-> returned, before |-> before, ended_earlier |-> ended_earlier]

\* whether, once call c is over, end_session has been called with no start since
EndedSince(c) ==
    \/ c.op = "end_session"
    \/ c.op \in {"get_current_session", "time_remaining"} /\ c.ended_earlier

SecondsPerMinute == 60

\* schedule.rs StudySession
ActiveSession(subject, start_time, end_time) ==
    [subject |-> subject, start_time |-> start_time, end_time |-> end_time]

\* Schedule::start_session leaving a session that is already active in place
Schedule_start_session_keeps(cur, subject, duration_minutes, t) ==
    IF cur.some THEN cur
    ELSE Some(ActiveSession(subject, t, t + duration_minutes * SecondsPerMinute))

\* Schedule::start_session: the current_session it leaves
Schedule_start_session(cur, subject, duration_minutes, t) ==
    Some(ActiveSession(subject, t, t + duration_minutes * SecondsPerMinute))

\* Schedule::end_session returning the session without taking it (clone for take)
Schedule_end_session_keeps(cur) == [returned |-> cur, current_session |-> cur]

\* Schedule::end_session: Option::take
Schedule_end_session(cur) == [returned |-> cur, current_session |-> None]

\* Schedule::time_remaining without the comparison of now with end_time
Schedule_time_remaining_unclamped(cur, t) ==
    IF cur.some THEN Some(cur.value.end_time - t) ELSE None

\* Schedule::time_remaining, in seconds
Schedule_time_remaining(cur, t) ==
    IF cur.some
    THEN Some(IF t < cur.value.end_time THEN cur.value.end_time - t ELSE 0)
    ELSE None

scheduler_vars ==
    <<subjects, schedules, file, last, pre, running, loops, notified, failed, now, ticks>>

start_session(subject, duration_minutes) ==
    /\ current_session' = Schedule_start_session(current_session, subject,
                                                 duration_minutes, clock)
    /\ session_call' = SessionCall("start_session", subject, duration_minutes, clock,
                                   "Ok", current_session, EndedSince(session_call))
    /\ UNCHANGED <<clock, scheduler_vars>>

end_session ==
    /\ current_session' = Schedule_end_session(current_session).current_session
    /\ session_call' = SessionCall("end_session", session_call.subject,
                                   session_call.duration_minutes, clock,
                                   Schedule_end_session(current_session).returned,
                                   current_session, EndedSince(session_call))
    /\ UNCHANGED <<clock, scheduler_vars>>

get_current_session ==
    /\ session_call' = SessionCall("get_current_session", session_call.subject,
                                   session_call.duration_minutes, clock,
                                   current_session, current_session,
                                   EndedSince(session_call))
    /\ UNCHANGED <<current_session, clock, scheduler_vars>>

time_remaining ==
    /\ session_call' = SessionCall("time_remaining", session_call.subject,
                                   session_call.duration_minutes, clock,
                                   Schedule_time_remaining(current_session, clock),
                                   current_session, EndedSince(session_call))
    /\ UNCHANGED <<current_session, clock, scheduler_vars>>

\* Local::now() half a minute later
time_passes ==
    /\ clock' = clock + SecondsPerMinute \div 2
    /\ UNCHANGED <<current_session, session_call, scheduler_vars>>

-----------------------------------------------------------------------------
(* Specifications *)

Names == {"Math", "Rs"}

\* the stores a Scheduler is constructed with: Scheduler::init (empty), or
\* Scheduler::new loading a file in which study time has accrued
InitStores ==
    { Store(EmptyMap, EmptyMap),
      Store([n \in {"Math"} |-> Subject(2, 1)],
            [n \in {"Math"} |-> <<StudySession("Monday", T_0900, 60)>>]) }

Monday0854 == [weekday |-> 0, minute |-> 534]

InitWith(stores, times) ==
    /\ \E st \in stores :
          /\ subjects = st.subjects
          /\ schedules = st.schedules
          /\ file = ToJson(st)
          /\ pre = st
    /\ last = Call("new", NoArg, NoArg, NoArg, NoArg, NoArg, "Ok", NotCalled, "Ok")
    /\ running = FALSE
    /\ loops = <<>>
    /\ notified = {}
    /\ failed = {}
    /\ now \in times
    /\ ticks = 0
    /\ current_session = None
    /\ session_call = SessionCall("new", NoArg, NoArg, 0, None, None, FALSE)
    /\ clock = 0

(* The store alone: every call of add_subject and add_schedule *)

TargetInputs == {-1, 0, 2}
DayInputs == {"Monday", "ijumaa"}
SlotInputs == {<<T_0900, 60>>, <<T_0900, 0>>, <<T_1000, 60>>, <<T_100000, 60>>}

InitStore == InitWith(InitStores, {Monday0854})

NextStore ==
    \/ \E n \in Names, t \in TargetInputs, o \in SaveOutcomes : add_subject(n, t, o)
    \/ \E n \in Names, d \in DayInputs, s \in SlotInputs, o \in SaveOutcomes :
          add_schedule(n, d, s[1], s[2], o)

SpecStore == InitStore /\ [][NextStore]_vars

(* The lifecycle: the daemon started and stopped while the clock runs and the
   foreground keeps changing the store *)

Init == InitWith(InitStores, {Monday0854})

Next ==
    \/ run_daemon
    \/ stop_daemon
    \/ \E i \in DOMAIN loops : loop_iteration(i, {})
    \/ ticks < MaxTicks /\ minute_passes
    \/ add_subject("Math", 2, "Ok")
    \/ add_schedule("Math", "Monday", T_0900, 60, "Ok")

Spec == Init /\ [][Next]_vars

\* the daemon started and stopped under fair scheduling: the runtime keeps polling
\* every task that can run, and the minutes keep passing up to the last one of the
\* model
NextFair ==
    \/ run_daemon
    \/ stop_daemon
    \/ \E i \in DOMAIN loops : loop_iteration(i, {})
    \/ ticks < MaxTicks /\ minute_passes

Fairness ==
    /\ \A i \in 1..MaxLoops : WF_loops(i \in DOMAIN loops /\ loop_iteration(i, {}))
    /\ WF_ticks(ticks < MaxTicks /\ minute_passes)

SpecFair == Init /\ [][NextFair]_vars /\ Fairness

(* The alert conditions alone: one task, spawned at any minute of the week over a
   store with one slot, makes its first pass *)

MatchTimes == {T_0900, T_0002, T_9_00, T_2500}

MatchStores ==
    { Store([n \in {"Math"} |-> Subject(2, 0)],
            [n \in {"Math"} |-> <<StudySession("Monday", s, 60)>>]) : s \in MatchTimes }

WeekTimes == [weekday : 0..6, minute : 0..(MinutesPerDay - 1)]

InitMatch == InitWith(MatchStores, WeekTimes)

NextMatch ==
    \/ loops = <<>> /\ run_daemon
    \/ \E i \in DOMAIN loops : loop_iteration(i, {})

SpecMatch == InitMatch /\ [][NextMatch]_vars

(* One day: one task, spawned on Monday at 00:00, ticks once per minute until 23:59 *)

Monday0000 == [weekday |-> 0, minute |-> 0]

InitDay == InitWith(MatchStores, {Monday0000})

NextDay ==
    \/ loops = <<>> /\ run_daemon
    \/ \E i \in DOMAIN loops : loop_iteration(i, {})
    \/ /\ loops # <<>>
       /\ \A i \in DOMAIN loops : loops[i].pc = "sleeping"
       /\ now.minute + 1 < MinutesPerDay
       /\ minute_passes

SpecDay == InitDay /\ [][NextDay]_vars

(* Notification errors: one task over a store in which two slots fall due in the
   same minute, every notify call free to return an error *)

NotifyStores ==
    { Store([n \in Names |-> Subject(2, 0)],
            [n \in Names |->
                IF n = "Math"
                THEN <<StudySession("Monday", T_0900, 60), StudySession("Monday", T_0901, 60)>>
                ELSE <<StudySession("Monday", T_0900, 60)>>]) }

Monday0859 == [weekday |-> 0, minute |-> 539]

InitNotify == InitWith(NotifyStores, {Monday0854, Monday0859})

NextNotify ==
    \/ loops = <<>> /\ run_daemon
    \/ stop_daemon
    \/ \E i \in DOMAIN loops : \E errs \in SUBSET Alerts(i, Snapshot(i), now) :
          loop_iteration(i, errs)
    \/ ticks < MaxTicks /\ minute_passes

SpecNotify == InitNotify /\ [][NextNotify]_vars

(* Slots added to a store that starts empty *)

InitEmpty == InitWith({Store(EmptyMap, EmptyMap)}, {Monday0854})

EmptyTimes == {T_0900, T_2500, T_100000}

EmptyTargets == {0, 2}

NextEmpty ==
    \/ \E n \in Names, t \in EmptyTargets, o \in SaveOutcomes : add_subject(n, t, o)
    \/ \E n \in Names, d \in DayInputs, s \in EmptyTimes :
          add_schedule(n, d, s, 60, "Ok")

SpecEmpty == InitEmpty /\ [][NextEmpty]_vars

(* The file: the store saved after every change and loaded again *)

FileTargets == {2, F32_INFINITY}

NextFile ==
    \/ \E n \in Names, t \in FileTargets, o \in SaveOutcomes : add_subject(n, t, o)
    \/ \E o \in SaveOutcomes : add_schedule("Math", "Monday", T_0900, 60, o)
    \/ load

SpecFile == InitStore /\ [][NextFile]_vars

(* One run of the program: main makes the Scheduler, runs one command and returns *)

InitMain == InitWith(InitStores, {Monday0854, Monday0859})

NextMain ==
    \/ last.op = "new" /\ run_daemon
    \/ last.op = "new" /\ stop_daemon
    \/ last.op = "new" /\ \E n \in Names, t \in TargetInputs : add_subject(n, t, "Ok")
    \/ last.op = "new" /\ \E n \in Names, d \in DayInputs, s \in SlotInputs :
                              add_schedule(n, d, s[1], s[2], "Ok")
    \/ \E i \in DOMAIN loops : loop_iteration(i, {})
    \/ last.op # "main" /\ ticks < MaxTicks /\ minute_passes
    \/ main_returns

SpecMain == InitMain /\ [][NextMain]_vars

(* The session tracker alone *)

SessionSubjects == {"Rs", "py"}
SessionMinutes == {0, 1, 2}

InitSession == InitWith({Store(EmptyMap, EmptyMap)}, {Monday0854})

NextSession ==
    \/ \E n \in SessionSubjects, d \in SessionMinutes : start_session(n, d)
    \/ end_session
    \/ get_current_session
    \/ time_remaining
    \/ clock < MaxHalfMinutes * (SecondsPerMinute \div 2) /\ time_passes

SpecSession == InitSession /\ [][NextSession]_vars

-----------------------------------------------------------------------------
(* Properties of the daemon: C1, C2 under Spec; C3, C4 under SpecMatch; C10 under SpecDay *)

\* C1: once stop_daemon has been called on a running task, the task ends at its
\* next evaluation of the running flag: it never passes that evaluation into
\* another pass over the schedules.
C1_StopEndsLoopAtNextObservation ==
    \A i \in DOMAIN loops : ~loops[i].passed_stop

\* C2: run_daemon spawns a task only if none is running, so at most one task is
\* live at any time.
C2_AtMostOneLoop ==
    Cardinality({i \in DOMAIN loops : Live(loops[i])}) <= 1

\* C21: a task for which stop_daemon was called before its first evaluation of the
\* running flag makes no pass: it sends no notification and ends at that first
\* evaluation.
C21_StoppedBeforeFirstCheckNeverTicks ==
    \A i \in DOMAIN loops :
        loops[i].stop_before_first
        => /\ loops[i].pc \in {"spawned", "stopped"}
           /\ \A e \in notified : e.loop # i

\* task i is asleep at the last minute of the model with the flag false: it ends
\* when it wakes
EndsOnWaking(i) ==
    /\ ticks = MaxTicks
    /\ loops[i].pc = "sleeping"
    /\ ~running

SlotOf(i, n, k) == loops[i].schedules[n][k]

Entry(i, n, k, kind) ==
    [loop |-> i, weekday |-> now.weekday, minute |-> now.minute,
     subject |-> n, slot |-> k, kind |-> kind]

\* the tasks that have made their pass at the present minute
Ticked == {i \in DOMAIN loops : loops[i].pc = "sleeping"}

\* C3: a pass at (day d, minute t) sends the starting-soon alert of a slot
\* {day D, start S} exactly when d = D and t is S - 5.
C3_SoonExactlyFiveMinutesBefore ==
    \A i \in Ticked : \A n \in DOMAIN loops[i].schedules :
        \A k \in 1..Len(loops[i].schedules[n]) :
            Entry(i, n, k, "soon") \in notified
            <=> /\ SlotOf(i, n, k).day = DayName(now.weekday)
                /\ ParseHM(SlotOf(i, n, k).start_time).ok
                /\ now.minute = ParseHM(SlotOf(i, n, k).start_time).minute - SoonMinutes

\* a start time written HH:MM, on five characters
IsHHMM(s) == Len(s) = 5 /\ ParseHM(s).ok

\* C4: a pass sends the starting-now alert of a slot exactly when the slot's day is
\* the current day's name and its start time, written HH:MM, is the current
\* hour and minute.
C4_NowExactlyAtStart ==
    \A i \in Ticked : \A n \in DOMAIN loops[i].schedules :
        \A k \in 1..Len(loops[i].schedules[n]) :
            Entry(i, n, k, "now") \in notified
            <=> /\ SlotOf(i, n, k).day = DayName(now.weekday)
                /\ IsHHMM(SlotOf(i, n, k).start_time)
                /\ ParseHM(SlotOf(i, n, k).start_time).minute = now.minute

\* C4 happens: a pass at the start of a slot has sent its starting-now alert
C4_Witness ==
    \E i \in Ticked : \E e \in notified :
        /\ e.loop = i
        /\ e.kind = "now"
        /\ e.minute = now.minute
        /\ SlotOf(i, e.subject, e.slot).start_time = T_0900

\* C23: one pass never sends both the starting-now and the starting-soon alert of
\* one slot.
C23_NowAndSoonExclusive ==
    \A i \in Ticked : \A n \in DOMAIN loops[i].schedules :
        \A k \in 1..Len(loops[i].schedules[n]) :
            ~(/\ Entry(i, n, k, "now") \in notified
              /\ Entry(i, n, k, "soon") \in notified)

\* a pass at the start of a slot sent its starting-now alert and not its
\* starting-soon alert
C23_Witness ==
    \E i \in Ticked : \E n \in DOMAIN loops[i].schedules :
        \E k \in 1..Len(loops[i].schedules[n]) :
            /\ StartingNow(SlotOf(i, n, k), now)
            /\ Entry(i, n, k, "now") \in notified
            /\ Entry(i, n, k, "soon") \notin notified

\* C10: a task that ticks once per minute sends each kind of alert of a slot at
\* most once in a day.
C10_EachAlertOncePerDay ==
    \A e1, e2 \in notified :
        (/\ e1.loop = e2.loop
         /\ e1.weekday = e2.weekday
         /\ e1.subject = e2.subject
         /\ e1.slot = e2.slot
         /\ e1.kind = e2.kind)
        => e1.minute = e2.minute

\* the time of an entry of `notified`
TimeOf(e) == [weekday |-> e.weekday, minute |-> e.minute]

\* C11: a notify call that returns an error changes nothing in the loop: every
\* alert due in that pass is still passed to notify, the task does not end unless
\* stop_daemon was called, and a task that has slept through a minute is awake
\* for its next pass.
C11_NotifyErrorsIgnored ==
    \A e \in failed :
        /\ Alerts(e.loop, loops[e.loop].schedules, TimeOf(e)) \subseteq notified
        /\ loops[e.loop].pc = "stopped" => loops[e.loop].stop_called
        /\ (TimeOf(e) # now /\ ~loops[e.loop].stop_called)
           => \/ loops[e.loop].pc = "awake"
              \/ /\ loops[e.loop].pc = "sleeping"
                 /\ Alerts(e.loop, loops[e.loop].schedules, now) \subseteq notified

\* C11 happens: a notify call failed, another alert of the same pass was delivered,
\* and the same task sent an alert in a later pass
C11_Witness ==
    \E e \in failed : \E d \in notified \ failed : \E l \in notified :
        /\ d.loop = e.loop /\ TimeOf(d) = TimeOf(e)
        /\ l.loop = e.loop /\ l.minute > e.minute

\* the notify calls task i has made at the present minute
SentNow(i) == {e \in notified : e.loop = i /\ TimeOf(e) = now}

\* C12: a task evaluates the alerts over the schedules it cloned when run_daemon
\* spawned it; what add_subject and add_schedule do to the store afterwards shows
\* only in the tasks spawned after them.
C12_LoopUsesItsSnapshot ==
    \A i \in Ticked : SentNow(i) = Alerts(i, loops[i].schedules, now)

\* C12 happens: in the same minute one task sent the alerts of the store as it was
\* before an add_schedule, and a task spawned after it those of the store as it is
C12_Witness ==
    \E i, j \in Ticked :
        /\ loops[j].schedules = schedules
        /\ loops[i].schedules # schedules
        /\ SentNow(i) # {}
        /\ Cardinality(SentNow(j)) > Cardinality(SentNow(i))
        /\ last.op \in {"run_daemon", "add_schedule"}

-----------------------------------------------------------------------------
(* Properties of the store, under SpecStore *)

\* C5: add_schedule for an existing subject with a day outside the seven names, or
\* with a start time that does not hold exactly one colon, returns an error and
\* leaves the schedules table as it was.
C5_InvalidSlotRejected ==
    (/\ last.op = "add_schedule"
     /\ last.subject \in DOMAIN pre.subjects
     /\ \/ last.day \notin valid_days
        \/ CountColons(last.start_time) # 1)
    => /\ last.config_result # "Ok"
       /\ last.result # "Ok"
       /\ schedules = pre.schedules

\* C6: add_schedule for a name that is not in the subjects table returns the
\* subject-not-found error whatever the other arguments are, and leaves the
\* schedules table as it was.
C6_UnknownSubjectRejected ==
    (last.op = "add_schedule" /\ last.subject \notin DOMAIN pre.subjects)
    => /\ last.config_result = "Err_subject_not_found"
       /\ last.result = "Err_subject_not_found"
       /\ schedules = pre.schedules

\* C6 happens: a call with a canonical day and a well-formed time, for a name the
\* subjects table lacks while another subject has slots, was rejected
C6_Witness ==
    /\ last.op = "add_schedule"
    /\ last.subject \notin DOMAIN pre.subjects
    /\ last.day \in valid_days
    /\ CountColons(last.start_time) = 1
    /\ last.result = "Err_subject_not_found"
    /\ pre.schedules # EmptyMap

\* C7: add_subject with target_hours <= 0 returns the validation error and leaves
\* the subjects table as it was.
C7_NonPositiveTargetRejected ==
    (last.op = "add_subject" /\ last.target_hours <= 0)
    => /\ last.config_result = "Err_target"
       /\ last.result = "Err_target"
       /\ subjects = pre.subjects

\* C7 happens: a target of exactly 0 was rejected for a name the table holds
C7_Witness ==
    /\ last.op = "add_subject"
    /\ last.target_hours = 0
    /\ last.subject \in DOMAIN pre.subjects
    /\ last.result = "Err_target"

\* C8: add_subject with target_hours > 0 succeeds on the Config, and the name then
\* maps to a subject with the given target and completed_hours 0.
C8_AddedSubjectLookup ==
    (last.op = "add_subject" /\ last.target_hours > 0)
    => /\ last.config_result = "Ok"
       /\ last.subject \in DOMAIN subjects
       /\ subjects[last.subject] = Subject(last.target_hours, 0)

\* C8 happens: a subject was added under a name that already had completed hours
C8_Witness ==
    /\ last.op = "add_subject"
    /\ last.target_hours > 0
    /\ last.subject \in DOMAIN pre.subjects
    /\ pre.subjects[last.subject].completed_hours > 0
    /\ subjects[last.subject].completed_hours = 0

\* C9: no call makes the completed_hours of an existing subject smaller than it was.
C9_CompletedHoursNeverDecrease ==
    \A n \in DOMAIN pre.subjects :
        /\ n \in DOMAIN subjects
        /\ subjects[n].completed_hours >= pre.subjects[n].completed_hours

\* C25: starting from an empty store, whatever add_subject and add_schedule calls
\* were made, every subject with an entry in the schedules table is a key of the
\* subjects table.
C25_ScheduledSubjectsExist ==
    DOMAIN schedules \subseteq DOMAIN subjects

\* the table holds slots, and add_schedule has just refused a subject that was
\* never added
C25_Witness ==
    /\ DOMAIN schedules # {}
    /\ last.op = "add_schedule"
    /\ last.result = "Err_subject_not_found"
    /\ last.subject \notin DOMAIN schedules

\* the slots the subject of the last call had when the call began
SlotsBefore ==
    IF last.subject \in DOMAIN pre.schedules THEN pre.schedules[last.subject] ELSE <<>>

\* C24: an add_schedule that succeeds puts the new slot at the end of the subject's
\* list: the earlier slots are its prefix, its length grows by one, and the lists of
\* the other subjects and the subjects table are as before.
C24_SlotAppended ==
    (last.op = "add_schedule" /\ last.config_result = "Ok")
    => /\ DOMAIN schedules = DOMAIN pre.schedules \cup {last.subject}
       /\ Len(schedules[last.subject]) = Len(SlotsBefore) + 1
       /\ SubSeq(schedules[last.subject], 1, Len(SlotsBefore)) = SlotsBefore
       /\ schedules[last.subject][Len(SlotsBefore) + 1]
              = StudySession(last.day, last.start_time, last.duration)
       /\ \A n \in DOMAIN pre.schedules \ {last.subject} :
              schedules[n] = pre.schedules[n]
       /\ subjects = pre.subjects

\* a slot was added to a subject that had one already, and differs from it
C24_Witness ==
    /\ last.op = "add_schedule"
    /\ last.config_result = "Ok"
    /\ Len(SlotsBefore) >= 1
    /\ Len(schedules[last.subject]) = Len(SlotsBefore) + 1
    /\ schedules[last.subject][Len(SlotsBefore) + 1] # SlotsBefore[Len(SlotsBefore)]

\* C16: loading the file that save wrote for a store gives back the same subjects
\* and the same schedules, field for field and in slot order.
C16_SaveLoadRoundTrip ==
    (last.op = "load" /\ file = ToJson(pre))
    => /\ last.result = "Ok"
       /\ subjects = pre.subjects
       /\ schedules = pre.schedules

\* C17: every slot of the schedule table has a duration above zero, whatever slots
\* were added: a slot of duration 0 is not stored.
C17_DurationsPositive ==
    \A n \in DOMAIN schedules : \A k \in 1..Len(schedules[n]) :
        schedules[n][k].duration > 0

\* C18: starting from an empty store, every slot of the schedule table has a start
\* time that is a 24-hour HH:MM value (hour 00-23, minute 00-59).
C18_StartTimesAreHHMM ==
    \A n \in DOMAIN schedules : \A k \in 1..Len(schedules[n]) :
        IsHHMM(schedules[n][k].start_time)

\* the change the last call asked for is in the tables in memory
MutationHeld ==
    IF last.op = "add_subject"
    THEN /\ last.subject \in DOMAIN subjects
         /\ subjects[last.subject].target_hours = last.target_hours
    ELSE /\ last.subject \in DOMAIN schedules
         /\ schedules[last.subject][Len(schedules[last.subject])]
                = StudySession(last.day, last.start_time, last.duration)
         /\ Len(schedules[last.subject])
                = 1 + (IF last.subject \in DOMAIN pre.schedules
                       THEN Len(pre.schedules[last.subject]) ELSE 0)

\* C19: when the save of add_subject or add_schedule fails, the call returns the IO
\* error and the tables in memory hold the change; when the arguments are rejected,
\* no save is made.
C19_SaveFailureReturnedMutationKept ==
    last.op \in {"add_subject", "add_schedule"}
    => /\ last.saved \in SaveOutcomes \ {"Ok"}
            => last.result = "Err_io" /\ MutationHeld
       /\ last.config_result # "Ok"
            => last.saved = NotCalled /\ last.result = last.config_result

\* add_schedule met a failing write: the error came back, the slot is in memory and
\* the file is cut short
C19_Witness ==
    /\ last.op = "add_schedule"
    /\ last.saved = "Err_write"
    /\ last.result = "Err_io"
    /\ file = Truncated
    /\ MutationHeld

\* C20: after Start the loop runs for as long as the flag is true: a task ends only
\* by reading the flag as false itself, also once the start call in main has
\* returned.
C20_LoopEndsOnlyOnFlag ==
    \A i \in DOMAIN loops : ~Live(loops[i]) => loops[i].pc = "stopped"

-----------------------------------------------------------------------------
(* Properties of the session tracker, under SpecSession *)

\* C13: end_session returns the session that was active and clears it; with none
\* active it returns None and leaves none, so an end_session that follows an
\* end_session with no start_session in between returns None.
C13_EndSessionTakes ==
    session_call.op = "end_session"
    => /\ session_call.returned = session_call.before
       /\ current_session = None
       /\ session_call.ended_earlier => session_call.returned = None

\* C13 happens: after a session was started and ended, end_session was called
\* again with no start_session in between, and returned None
C13_Witness ==
    /\ session_call.op = "end_session"
    /\ session_call.ended_earlier
    /\ session_call.subject # NoArg
    /\ session_call.returned = None

C15_LatestSessionIsActive ==
    /\ current_session.some
       => /\ current_session.value.subject = session_call.subject
          /\ current_session.value.end_time - current_session.value.start_time
                 = session_call.duration_minutes * SecondsPerMinute
    /\ session_call.op = "start_session"
       => /\ session_call.returned = "Ok"
          /\ current_session.some
          /\ current_session.value.start_time = session_call.at
    /\ (session_call.op \in {"get_current_session", "end_session"}
          /\ session_call.before.some)
       => /\ session_call.returned = session_call.before
          /\ session_call.returned.value.subject = session_call.subject

\* C15 happens: a session of another subject, started at another time, was active
\* when start_session was called
C15_Witness ==
    /\ session_call.op = "start_session"
    /\ session_call.before.some
    /\ session_call.before.value.subject # session_call.subject
    /\ session_call.before.value.start_time < session_call.at

====
